---- MODULE Spec2Model ----
(***************************************************************************)
(* Model of src/main.rs: the discrete gravity simulation (Vec3, Body,      *)
(* System), the cycle-detecting loop of main, and the two unit tests.      *)
(***************************************************************************)
EXTENDS Integers, Sequences, FiniteSets, TLC

VARIABLES
    prog,       \* what runs: "main", "example1", "example2", or a bare sequence of
                \* step() calls, "steps" (pairs in code order) or "order" (any order)
    positions,  \* the Vec<Position> handed to System::new
    bodies,     \* System.bodies: sequence of [position, velocity]
    prev,       \* System.bodies on entry to the step() in progress
    calls,      \* the (self, other) index pairs calc_gravity was invoked with in this step()
    pc,         \* control position: "loop" (main), "gravity" and "check" (in and after
                \* step()), "done", "panic"
    count,      \* main: count; tests: number of loop iterations completed
    states,     \* main: the HashSet of recorded state() vectors
    out         \* lines printed by main

vars == <<prog, positions, bodies, prev, calls, pc, count, states, out>>

----------------------------------------------------------------------------
(* Bounds of the model *)

MaxBodies == 2
MaxCoord == 1
MaxOrderSteps == 2
MaxSteps == 12

(* Program constant: the iteration cap of main *)
Cap == 1000

----------------------------------------------------------------------------
(* Vec3 *)

Vec3New == [x |-> 0, y |-> 0, z |-> 0]

AddAssignZfromY(self, other) ==
    [x |-> self.x + other.x, y |-> self.y + other.y, z |-> self.z + other.y]

AddAssign(self, other) ==
    [x |-> self.x + other.x, y |-> self.y + other.y, z |-> self.z + other.z]

SignumId(d) == d

SignumTwice(d) == IF d > 0 THEN 2 ELSE IF d < 0 THEN -2 ELSE 0

Signum(d) == IF d > 0 THEN 1 ELSE IF d < 0 THEN -1 ELSE 0

AbsId(v) == v

Abs(v) == IF v < 0 THEN -v ELSE v

----------------------------------------------------------------------------
(* Body *)

BodyNew(position) == [position |-> position, velocity |-> Vec3New]

\* pair[0].borrow_mut() is held while calc_gravity calls other.borrow():
\* the two borrows hit the same RefCell exactly when both are the same body.
BorrowConflict(i, j) == i = j

CalcGravityInterleaved(bs, i, j) ==
    LET dx == bs[i].position.x - bs[j].position.x
        dy == bs[i].position.y - bs[j].position.y
        dz == bs[i].position.z - bs[j].position.z
        sv == [x |-> bs[i].velocity.x - Signum(dx),
               y |-> bs[i].velocity.y - Signum(dy),
               z |-> bs[i].velocity.z - Signum(dz)]
        ov == [x |-> bs[j].velocity.x + Signum(dx),
               y |-> bs[j].velocity.y + Signum(dy),
               z |-> bs[j].velocity.z + Signum(dz)]
    IN  [bs EXCEPT ![i].velocity = sv,
                   ![i].position = AddAssign(bs[i].position, sv),
                   ![j].velocity = ov]

CalcGravityOneSided(bs, i, j) ==
    LET dx == bs[i].position.x - bs[j].position.x
        dy == bs[i].position.y - bs[j].position.y
        dz == bs[i].position.z - bs[j].position.z
    IN  [bs EXCEPT ![i].velocity = [x |-> bs[i].velocity.x - Signum(dx),
                                    y |-> bs[i].velocity.y - Signum(dy),
                                    z |-> bs[i].velocity.z - Signum(dz)]]

CalcGravitySameSign(bs, i, j) ==
    LET dx == bs[i].position.x - bs[j].position.x
        dy == bs[i].position.y - bs[j].position.y
        dz == bs[i].position.z - bs[j].position.z
    IN  [bs EXCEPT ![i].velocity = [x |-> bs[i].velocity.x - Signum(dx),
                                    y |-> bs[i].velocity.y - Signum(dy),
                                    z |-> bs[i].velocity.z - Signum(dz)],
                   ![j].velocity = [x |-> bs[j].velocity.x - Signum(dx),
                                    y |-> bs[j].velocity.y - Signum(dy),
                                    z |-> bs[j].velocity.z - Signum(dz)]]

CalcGravityCrossAxis(bs, i, j) ==
    LET dx == bs[i].position.x - bs[j].position.x
        dy == bs[i].position.y - bs[j].position.y
        dz == bs[i].position.z - bs[j].position.z
    IN  [bs EXCEPT ![i].velocity = [x |-> bs[i].velocity.x - Signum(dy),
                                    y |-> bs[i].velocity.y - Signum(dy),
                                    z |-> bs[i].velocity.z - Signum(dz)],
                   ![j].velocity = [x |-> bs[j].velocity.x + Signum(dy),
                                    y |-> bs[j].velocity.y + Signum(dy),
                                    z |-> bs[j].velocity.z + Signum(dz)]]

\* self = bs[i], other = bs[j], i # j
CalcGravity(bs, i, j) ==
    LET dx == bs[i].position.x - bs[j].position.x
        dy == bs[i].position.y - bs[j].position.y
        dz == bs[i].position.z - bs[j].position.z
    IN  [bs EXCEPT ![i].velocity = [x |-> bs[i].velocity.x - Signum(dx),
                                    y |-> bs[i].velocity.y - Signum(dy),
                                    z |-> bs[i].velocity.z - Signum(dz)],
                   ![j].velocity = [x |-> bs[j].velocity.x + Signum(dx),
                                    y |-> bs[j].velocity.y + Signum(dy),
                                    z |-> bs[j].velocity.z + Signum(dz)]]

UpdatePosSaturating(b) ==
    [b EXCEPT !.position =
        [x |-> IF b.position.x + b.velocity.x < 0 THEN 0 ELSE b.position.x + b.velocity.x,
         y |-> IF b.position.y + b.velocity.y < 0 THEN 0 ELSE b.position.y + b.velocity.y,
         z |-> IF b.position.z + b.velocity.z < 0 THEN 0 ELSE b.position.z + b.velocity.z]]

UpdatePos(b) == [b EXCEPT !.position = AddAssign(b.position, b.velocity)]

\* The failed outcome of .try_into().unwrap(): no usize has this value.
UnwrapFailed == -1

TryIntoUsize(v) == IF v >= 0 THEN v ELSE UnwrapFailed

PotentialEnergy(b) ==
    TryIntoUsize(Abs(b.position.x) + Abs(b.position.y) + Abs(b.position.z))

KineticEnergy(b) ==
    TryIntoUsize(Abs(b.velocity.x) + Abs(b.velocity.y) + Abs(b.velocity.z))

BodyTotalEnergy(b) ==
    IF PotentialEnergy(b) = UnwrapFailed \/ KineticEnergy(b) = UnwrapFailed
    THEN UnwrapFailed
    ELSE PotentialEnergy(b) * KineticEnergy(b)

----------------------------------------------------------------------------
(* System *)

SystemNew(ps) == [i \in 1..Len(ps) |-> BodyNew(ps[i])]

RECURSIVE CombFrom(_, _, _)
CombFrom(i, j, n) ==
    IF i >= n THEN <<>>
    ELSE IF j > n THEN CombFrom(i + 1, i + 2, n)
    ELSE <<<<i, j>>>> \o CombFrom(i, j + 1, n)

CombinationsProduct(n) ==
    [k \in 1..(n * n) |-> <<((k - 1) \div n) + 1, ((k - 1) % n) + 1>>]

\* self.bodies.iter().combinations(2): index pairs i < j in lexicographic order
Combinations(n) == CombFrom(1, 2, n)

\* The loop over the pairs, from the k-th pair on; each pass works on the
\* value the pass before left (after is bound to that value).
RECURSIVE GravityFrom(_, _, _)
GravityFrom(bs, pairs, k) ==
    IF k > Len(pairs) THEN bs
    ELSE CHOOSE r \in {GravityFrom(after, pairs, k + 1) :
                         after \in {CalcGravity(bs, pairs[k][1], pairs[k][2])}} : TRUE

GravityPhase(bs, pairs) == GravityFrom(bs, pairs, 1)

\* update_pos on the first k bodies, in order
RECURSIVE MotionUpTo(_, _)
MotionUpTo(bs, k) ==
    IF k = 0 THEN <<>> ELSE Append(MotionUpTo(bs, k - 1), UpdatePos(bs[k]))

MotionPhase(bs) == MotionUpTo(bs, Len(bs))

\* step(): the gravity loop, then update_pos on what it left (pulled)
SystemStep(bs) ==
    CHOOSE r \in {MotionPhase(pulled) :
                    pulled \in {GravityPhase(bs, Combinations(Len(bs)))}} : TRUE

\* step() panics when some pair borrows one RefCell twice
StepPanics(bs) ==
    \E k \in 1..Len(Combinations(Len(bs))) :
        BorrowConflict(Combinations(Len(bs))[k][1], Combinations(Len(bs))[k][2])

RECURSIVE EnergySum(_, _)
EnergySum(bs, k) ==
    IF k = 0 THEN 0
    ELSE IF BodyTotalEnergy(bs[k]) = UnwrapFailed \/ EnergySum(bs, k - 1) = UnwrapFailed
         THEN UnwrapFailed
         ELSE EnergySum(bs, k - 1) + BodyTotalEnergy(bs[k])

SystemTotalEnergy(bs) == EnergySum(bs, Len(bs))

BodyFieldsVelocityFirst(b) ==
    <<b.velocity.x, b.velocity.y, b.velocity.z,
      b.position.x, b.position.y, b.position.z>>

\* the six values state() pushes for one body
BodyFields(b) ==
    <<b.position.x, b.position.y, b.position.z,
      b.velocity.x, b.velocity.y, b.velocity.z>>

RECURSIVE PositionsUpTo(_, _)
PositionsUpTo(bs, k) ==
    IF k = 0 THEN <<>>
    ELSE PositionsUpTo(bs, k - 1)
           \o <<bs[k].position.x, bs[k].position.y, bs[k].position.z>>

SystemStatePositions(bs) == PositionsUpTo(bs, Len(bs))

RECURSIVE StateUpTo(_, _)
StateUpTo(bs, k) ==
    IF k = 0 THEN <<>> ELSE StateUpTo(bs, k - 1) \o BodyFields(bs[k])

\* state(): six values per body, in body order
SystemState(bs) == StateUpTo(bs, Len(bs))

----------------------------------------------------------------------------
(* main *)

MainPositions ==
    << [x |-> -19, y |-> -4, z |-> 2],
       [x |-> -9,  y |-> 8,  z |-> -16],
       [x |-> -4,  y |-> 5,  z |-> -11],
       [x |-> 1,   y |-> 9,  z |-> -13] >>

\* small positions: bodies up to MaxCoord + 1 apart on x, MaxCoord on y and z
Points == [x : (-1)..MaxCoord, y : 0..MaxCoord, z : {0, MaxCoord}]

\* System::new takes any list of positions; a system has at least two bodies
SmallConfigs == UNION {[1..n -> Points] : n \in 2..MaxBodies}

\* three bodies first back at their initial state after Cap - 1 steps (27 steps
\* on x, 111 on y): the state after the Cap-th step is the one recorded at
\* iteration 1
CapReturnPositions ==
    << [x |-> 0,  y |-> 0,  z |-> 0],
       [x |-> 9,  y |-> 10, z |-> 0],
       [x |-> 23, y |-> 54, z |-> 0] >>

InitConfigs == {MainPositions, CapReturnPositions} \cup SmallConfigs

AtCapEarly(c) == c = Cap - 1

AtCap(c) == c = Cap

\* println!("Total energy: {}", e)
EnergyLine(e) == <<[kind |-> "energy", value |-> e]>>

\* println!("Found a duplicate state after {} iterations", c)
DuplicateLine(c) == <<[kind |-> "duplicate", value |-> c]>>

InsertedAlways(set, s) == TRUE

InsertedInverted(set, s) == s \in set

\* HashSet::insert returns true when the value was not present
Inserted(set, s) == s \notin set

InitSeeded ==
    /\ prog = "main"
    /\ positions \in InitConfigs
    /\ bodies = SystemNew(positions)
    /\ prev = bodies
    /\ calls = <<>>
    /\ pc = "loop"
    /\ count = 0
    /\ states = {SystemState(bodies)}
    /\ out = <<>>

\* main up to the loop: System::new(positions), an empty HashSet, count = 0
Init ==
    /\ prog = "main"
    /\ positions \in InitConfigs
    /\ bodies = SystemNew(positions)
    /\ prev = bodies
    /\ calls = <<>>
    /\ pc = "loop"
    /\ count = 0
    /\ states = {}
    /\ out = <<>>

MainIterationInsertFirst ==
    /\ pc = "loop"
    /\ prog = "main"
    /\ IF StepPanics(bodies)
       THEN /\ pc' = "panic"
            /\ UNCHANGED <<bodies, count, states, out>>
       ELSE \E stepped \in {SystemStep(bodies)} :
                /\ bodies' = stepped
                /\ count' = count + 1
                /\ states' = states \cup {SystemState(stepped)}
                /\ IF ~Inserted(states, SystemState(stepped))
                   THEN /\ pc' = "done"
                        /\ out' = out \o DuplicateLine(count + 1)
                   ELSE IF AtCap(count + 1)
                   THEN IF SystemTotalEnergy(stepped) = UnwrapFailed
                        THEN pc' = "panic" /\ out' = out
                        ELSE /\ pc' = "done"
                             /\ out' = out \o EnergyLine(SystemTotalEnergy(stepped))
                   ELSE pc' = "loop" /\ out' = out
    /\ UNCHANGED <<prog, positions, prev, calls>>

MainIterationNoBreak ==
    /\ pc = "loop"
    /\ prog = "main"
    /\ IF StepPanics(bodies)
       THEN /\ pc' = "panic"
            /\ UNCHANGED <<bodies, count, states, out>>
       ELSE \E stepped \in {SystemStep(bodies)} :
                /\ bodies' = stepped
                /\ count' = count + 1
                /\ IF AtCap(count + 1)
                   THEN /\ states' = states
                        /\ IF SystemTotalEnergy(stepped) = UnwrapFailed
                           THEN pc' = "panic" /\ out' = out
                           ELSE /\ pc' = "done"
                                /\ out' = out \o EnergyLine(SystemTotalEnergy(stepped))
                   ELSE /\ states' = states \cup {SystemState(stepped)}
                        /\ pc' = "loop"
                        /\ IF Inserted(states, SystemState(stepped))
                           THEN out' = out
                           ELSE out' = out \o DuplicateLine(count + 1)
    /\ UNCHANGED <<prog, positions, prev, calls>>

\* One pass through the body of the loop of main:
\*   system.step(); count += 1;
\*   if count == 1000 { print the energy; break }
\*   if !states.insert(system.state()) { print the count; break }
MainIteration ==
    /\ pc = "loop"
    /\ prog = "main"
    /\ IF StepPanics(bodies)
       THEN /\ pc' = "panic"
            /\ UNCHANGED <<bodies, count, states, out>>
       ELSE \E stepped \in {SystemStep(bodies)} :
                /\ bodies' = stepped
                /\ count' = count + 1
                /\ IF AtCap(count + 1)
                   THEN /\ states' = states
                        /\ IF SystemTotalEnergy(stepped) = UnwrapFailed
                           THEN pc' = "panic" /\ out' = out
                           ELSE /\ pc' = "done"
                                /\ out' = out \o EnergyLine(SystemTotalEnergy(stepped))
                   ELSE /\ states' = states \cup {SystemState(stepped)}
                        /\ IF Inserted(states, SystemState(stepped))
                           THEN pc' = "loop" /\ out' = out
                           ELSE /\ pc' = "done"
                                /\ out' = out \o DuplicateLine(count + 1)
    /\ UNCHANGED <<prog, positions, prev, calls>>

Next == MainIteration

Spec == Init /\ [][Next]_vars

\* main is a sequential program: it keeps running until it breaks out of the loop
FairSpec == Spec /\ WF_vars(Next)

----------------------------------------------------------------------------
(* System::step pair by pair, called over and over on a system *)

\* One iteration of the loop over combinations(2) in System::step
CalcGravityStep ==
    /\ pc = "gravity"
    /\ prog # "order"
    /\ Len(calls) < Len(Combinations(Len(bodies)))
    /\ LET pair == Combinations(Len(bodies))[Len(calls) + 1]
       IN  /\ calls' = Append(calls, pair)
           /\ IF BorrowConflict(pair[1], pair[2])
              THEN pc' = "panic" /\ bodies' = bodies
              ELSE pc' = pc /\ bodies' = CalcGravity(bodies, pair[1], pair[2])
    /\ UNCHANGED <<prog, positions, prev, count, states, out>>

\* The for_each over update_pos that ends System::step
UpdatePosStep ==
    /\ pc = "gravity"
    /\ prog # "order" => Len(calls) = Len(Combinations(Len(bodies)))
    /\ prog = "order" => Len(calls) = (Len(bodies) * (Len(bodies) - 1)) \div 2
    /\ bodies' = MotionPhase(bodies)
    /\ pc' = "check"
    /\ UNCHANGED <<prog, positions, prev, calls, count, states, out>>

StepLimit(p) == IF p = "order" THEN MaxOrderSteps ELSE MaxSteps

\* step() has returned and the caller calls it again
StepAgain ==
    /\ pc = "check"
    /\ prog \in {"steps", "order"}
    /\ count + 1 < StepLimit(prog)
    /\ count' = count + 1
    /\ prev' = bodies
    /\ calls' = <<>>
    /\ pc' = "gravity"
    /\ UNCHANGED <<prog, positions, bodies, states, out>>

\* step() has returned and the caller makes no further call
StepsDone ==
    /\ pc = "check"
    /\ prog \in {"steps", "order"}
    /\ count + 1 = StepLimit(prog)
    /\ count' = count + 1
    /\ pc' = "done"
    /\ UNCHANGED <<prog, positions, bodies, prev, calls, states, out>>

StepInit ==
    /\ prog = "steps"
    /\ positions \in InitConfigs
    /\ bodies = SystemNew(positions)
    /\ prev = bodies
    /\ calls = <<>>
    /\ pc = "gravity"
    /\ count = 0
    /\ states = {}
    /\ out = <<>>

StepNext == CalcGravityStep \/ UpdatePosStep \/ StepAgain \/ StepsDone

StepSpec == StepInit /\ [][StepNext]_vars

----------------------------------------------------------------------------
(* tests::example1 and tests::example2 *)

Example1Positions ==
    << [x |-> -1, y |-> 0,   z |-> 2],
       [x |-> 2,  y |-> -10, z |-> -7],
       [x |-> 4,  y |-> -8,  z |-> 8],
       [x |-> 3,  y |-> 5,   z |-> -1] >>

Example2Positions ==
    << [x |-> -8, y |-> -10, z |-> 0],
       [x |-> 5,  y |-> 5,   z |-> 10],
       [x |-> 2,  y |-> -7,  z |-> 3],
       [x |-> 9,  y |-> -8,  z |-> -3] >>

Tests == {"example1", "example2"}

TestPositions(t) == IF t = "example1" THEN Example1Positions ELSE Example2Positions

\* for _ in 0..10 / for _ in 0..100
TestSteps(t) == IF t = "example1" THEN 10 ELSE 100

\* the right-hand sides of the two assert_eq!
TestExpected(t) == IF t = "example1" THEN 179 ELSE 1940

TestInit ==
    /\ prog \in Tests
    /\ positions = TestPositions(prog)
    /\ bodies = SystemNew(positions)
    /\ prev = bodies
    /\ calls = <<>>
    /\ pc = "gravity"
    /\ count = 0
    /\ states = {}
    /\ out = <<>>

\* the for loop of a test goes round again
TestContinue ==
    /\ pc = "check"
    /\ prog \in Tests
    /\ count + 1 < TestSteps(prog)
    /\ count' = count + 1
    /\ prev' = bodies
    /\ calls' = <<>>
    /\ pc' = "gravity"
    /\ UNCHANGED <<prog, positions, bodies, states, out>>

\* the for loop of a test is over: assert_eq!(system.total_energy(), expected)
TestAssert ==
    /\ pc = "check"
    /\ prog \in Tests
    /\ count + 1 = TestSteps(prog)
    /\ count' = count + 1
    /\ pc' = IF SystemTotalEnergy(bodies) = TestExpected(prog) THEN "done" ELSE "panic"
    /\ UNCHANGED <<prog, positions, bodies, prev, calls, states, out>>

TestNext == CalcGravityStep \/ UpdatePosStep \/ TestContinue \/ TestAssert

TestSpec == TestInit /\ [][TestNext]_vars

----------------------------------------------------------------------------
(* System::step with the pairs taken in any order and either operand order *)

OrderConfigs ==
    {MainPositions, SubSeq(Example1Positions, 1, 3), SubSeq(Example2Positions, 1, 3)}

OrderInit ==
    /\ prog = "order"
    /\ positions \in OrderConfigs
    /\ bodies = SystemNew(positions)
    /\ prev = bodies
    /\ calls = <<>>
    /\ pc = "gravity"
    /\ count = 0
    /\ states = {}
    /\ out = <<>>

\* calc_gravity on some pair of distinct bodies not yet handled in this step
AnyPairStep ==
    /\ pc = "gravity"
    /\ prog = "order"
    /\ \E i, j \in 1..Len(bodies) :
          /\ i # j
          /\ \A k \in 1..Len(calls) : {calls[k][1], calls[k][2]} # {i, j}
          /\ calls' = Append(calls, <<i, j>>)
          /\ bodies' = CalcGravity(bodies, i, j)
    /\ UNCHANGED <<prog, positions, prev, pc, count, states, out>>

OrderNext == AnyPairStep \/ UpdatePosStep \/ StepAgain \/ StepsDone

OrderSpec == OrderInit /\ [][OrderNext]_vars

----------------------------------------------------------------------------
(* Reference definitions used by the properties *)

Axes == {"x", "y", "z"}

\* v_i + sum over the other bodies j of sign(p_j - p_i), from the positions of bs
RefVel(bs, i, a) ==
    bs[i].velocity[a]
      + Cardinality({j \in 1..Len(bs) : bs[j].position[a] > bs[i].position[a]})
      - Cardinality({j \in 1..Len(bs) : bs[j].position[a] < bs[i].position[a]})

RefBody(bs, i) ==
    [position |-> [x |-> bs[i].position.x + RefVel(bs, i, "x"),
                   y |-> bs[i].position.y + RefVel(bs, i, "y"),
                   z |-> bs[i].position.z + RefVel(bs, i, "z")],
     velocity |-> [x |-> RefVel(bs, i, "x"),
                   y |-> RefVel(bs, i, "y"),
                   z |-> RefVel(bs, i, "z")]]

RECURSIVE RefBodies(_, _)
RefBodies(bs, k) == IF k = 0 THEN <<>> ELSE Append(RefBodies(bs, k - 1), RefBody(bs, k))

\* the two-phase step: all velocities from the old positions, then all positions
RefStep(bs) == RefBodies(bs, Len(bs))

\* the system after k steps; the recursion halves k to stay shallow
RECURSIVE StepN(_, _)
StepN(bs, k) ==
    IF k = 0 THEN bs
    ELSE IF k = 1 THEN RefStep(bs)
    ELSE LET mid == StepN(bs, k \div 2)
         IN  IF mid = <<>> THEN mid ELSE StepN(mid, k - (k \div 2))

\* <<system after 1 step, ..., system after n steps>>
RECURSIVE Traj(_, _)
Traj(bs, n) ==
    IF n = 0 THEN <<>>
    ELSE IF n = 1 THEN <<RefStep(bs)>>
    ELSE LET first == Traj(bs, n \div 2)
         IN  IF Len(first) = 0 THEN first
             ELSE first \o Traj(first[Len(first)], n - (n \div 2))

Least(S) == IF S = {} THEN 0 ELSE CHOOSE c \in S : \A d \in S : c <= d

\* first index of T whose element equals an element at a smaller index, else 0
FirstRepeatIn(T) == Least({c \in 1..Len(T) : \E j \in 1..(c - 1) : T[j] = T[c]})

\* A repeat within the first 32 steps is the first repeat of the whole run;
\* the long trajectory is only built when there is none.
Horizon(n) == IF n < 32 THEN n ELSE 32

\* first iteration c < Cap whose system equals the system after an earlier
\* iteration j >= 1, 0 when there is none
FirstRepeat(ps) ==
    LET short == FirstRepeatIn(Traj(SystemNew(ps), Horizon(Cap - 1)))
    IN  IF short # 0 THEN short ELSE FirstRepeatIn(Traj(SystemNew(ps), Cap - 1))

\* the same, the initial configuration counting as step 0
FirstRepeatFromZero(ps) ==
    LET short == FirstRepeatIn(<<SystemNew(ps)>> \o Traj(SystemNew(ps), Horizon(Cap - 1)))
        long == FirstRepeatIn(<<SystemNew(ps)>> \o Traj(SystemNew(ps), Cap - 1))
    IN  IF short # 0 THEN short - 1 ELSE IF long # 0 THEN long - 1 ELSE 0

FirstReturnIn(T, start) == Least({k \in 1..Len(T) : T[k] = start})

\* first k in 1..Cap-1 with the system after k steps equal to the initial one, else 0
FirstReturn(ps) ==
    LET short == FirstReturnIn(Traj(SystemNew(ps), Horizon(Cap - 1)), SystemNew(ps))
    IN  IF short # 0 THEN short
        ELSE FirstReturnIn(Traj(SystemNew(ps), Cap - 1), SystemNew(ps))

\* what a run from ps prints, as a function of ps alone
Outcome(ps) ==
    IF FirstRepeat(ps) = 0
    THEN EnergyLine(SystemTotalEnergy(StepN(SystemNew(ps), Cap)))
    ELSE DuplicateLine(FirstRepeat(ps))

\* the state() vectors after steps 1..n from ps
StatesUpTo(ps, n) ==
    LET T == Traj(SystemNew(ps), n) IN {SystemState(T[j]) : j \in 1..Len(T)}

\* the positions before the motion phase: position - velocity
Unmoved(bs) ==
    [i \in 1..Len(bs) |->
        [x |-> bs[i].position.x - bs[i].velocity.x,
         y |-> bs[i].position.y - bs[i].velocity.y,
         z |-> bs[i].position.z - bs[i].velocity.z]]

\* the pull body i got on axis a from bodies at positions ps
Pull(ps, i, a) ==
    Cardinality({j \in 1..Len(ps) : ps[j][a] > ps[i][a]})
      - Cardinality({j \in 1..Len(ps) : ps[j][a] < ps[i][a]})

\* the system a step turned into bs: positions put back, then the pulls
\* computed from them taken off the velocities
StepBack(bs) ==
    [i \in 1..Len(bs) |->
        [position |-> Unmoved(bs)[i],
         velocity |-> [x |-> bs[i].velocity.x - Pull(Unmoved(bs), i, "x"),
                       y |-> bs[i].velocity.y - Pull(Unmoved(bs), i, "y"),
                       z |-> bs[i].velocity.z - Pull(Unmoved(bs), i, "z")]]]

\* one axis of a system: each body's position and velocity component on a
AxisOf(bs, a) ==
    [i \in 1..Len(bs) |-> [p |-> bs[i].position[a], v |-> bs[i].velocity[a]]]

\* a step of the one-axis system line, from its own values only
AxisStep(line) ==
    [i \in 1..Len(line) |->
        LET pull == Cardinality({j \in 1..Len(line) : line[j].p > line[i].p})
                      - Cardinality({j \in 1..Len(line) : line[j].p < line[i].p})
        IN  [p |-> line[i].p + line[i].v + pull, v |-> line[i].v + pull]]

\* positions that agree with ps on axis a and are 0 on the other two axes
OnlyAxis(ps, a) ==
    [i \in 1..Len(ps) |->
        [x |-> IF a = "x" THEN ps[i].x ELSE 0,
         y |-> IF a = "y" THEN ps[i].y ELSE 0,
         z |-> IF a = "z" THEN ps[i].z ELSE 0]]

\* positions that agree with ps on axis a and hold the values of the next
\* axis, negated, on the other two
OtherAxes(ps, a) ==
    [i \in 1..Len(ps) |->
        [x |-> IF a = "x" THEN ps[i].x ELSE -ps[i].y,
         y |-> IF a = "y" THEN ps[i].y ELSE -ps[i].z,
         z |-> IF a = "z" THEN ps[i].z ELSE -ps[i].x]]

\* k calls of step() on bs
RECURSIVE Steps(_, _)
Steps(bs, k) ==
    IF k = 0 THEN bs
    ELSE CHOOSE r \in {SystemStep(before) : before \in {Steps(bs, k - 1)}} : TRUE

RECURSIVE SumVel(_, _, _)
SumVel(bs, a, k) == IF k = 0 THEN 0 ELSE SumVel(bs, a, k - 1) + bs[k].velocity[a]

UnorderedPairs(n) == {{i, j} : i, j \in 1..n} \ {{i} : i \in 1..n}

----------------------------------------------------------------------------
(* Properties *)

\* C1: a test that has run all its step() calls holds the reference energy:
\* example1 has total_energy() = 179 after exactly 10 steps, example2 has
\* total_energy() = 1940 after exactly 100 steps, so neither assert_eq! fails.
C1_ReferenceEnergies ==
    /\ pc # "panic"
    /\ (prog = "example1" /\ pc = "done") =>
           count = 10 /\ SystemTotalEnergy(bodies) = 179
    /\ (prog = "example2" /\ pc = "done") =>
           count = 100 /\ SystemTotalEnergy(bodies) = 1940

C1_Witness ==
    /\ prog = "example2" /\ pc = "done" /\ count = 100
    /\ positions = Example2Positions

\* C2: during the gravity phase of step() no position differs from the one
\* held on entry, and when step() returns every body has velocity
\* v + sum of sign(p_j - p) over the other bodies, taken from the positions on
\* entry, and position p + (new velocity).
C2_TwoPhaseStep ==
    /\ pc = "gravity" =>
           \A i \in 1..Len(bodies) : bodies[i].position = prev[i].position
    /\ pc = "check" => bodies = RefStep(prev)

C2_Witness ==
    /\ pc = "check" /\ Len(bodies) = 4 /\ count = 7
    /\ \E i \in 1..4 : bodies[i].position # prev[i].position
    /\ \E i \in 1..4 : bodies[i].velocity # prev[i].velocity

\* C3: main stops, after at most Cap iterations, having printed exactly one
\* line (the energy line or the duplicate line), and prints nothing before.
C3_TerminatesWithOneOutcome ==
    /\ <>(pc = "done")
    /\ [](count <= Cap)
    /\ [](pc # "done" => out = <<>>)
    /\ [](pc = "done" =>
            /\ Len(out) = 1
            /\ out[1].kind \in {"energy", "duplicate"})

C3_Witness ==
    /\ pc = "done" /\ Len(out) = 1 /\ out[1].kind = "duplicate"
    /\ Len(bodies) = 2 /\ count = 13

\* C4: when no system after iterations 1..Cap-1 equals the system after an
\* earlier iteration, main ends with the energy line, after exactly Cap
\* steps, printing total_energy() of the system after Cap steps.
C4_NoRepeatGivesEnergy ==
    (pc = "done" /\ FirstRepeat(positions) = 0) =>
        /\ count = Cap
        /\ out = EnergyLine(SystemTotalEnergy(StepN(SystemNew(positions), Cap)))

C4_Witness ==
    /\ pc = "done" /\ count = Cap /\ Len(out) = 1 /\ out[1].kind = "energy"
    /\ Cardinality(states) = Cap - 1

\* C5: when some iteration c < Cap leaves the system equal to the system after
\* an earlier iteration j >= 1, main ends with the duplicate line at the first
\* such c, printing c, and the cap is not reached.
C5_FirstRepeatReported ==
    (pc = "done" /\ FirstRepeat(positions) # 0) =>
        /\ count = FirstRepeat(positions)
        /\ count < Cap
        /\ out = DuplicateLine(FirstRepeat(positions))

C5_Witness ==
    /\ pc = "done" /\ out = DuplicateLine(7) /\ Len(bodies) = 2
    /\ SystemState(bodies) \in states

\* C6 as stated: the reported iteration is the first step whose system equals
\* the system at a strictly earlier point, the initial configuration counting
\* as step 0; a configuration back at its initial state after k steps is
\* reported at iteration k.
C6_Original ==
    (pc = "done" /\ FirstRepeatFromZero(positions) # 0) =>
        /\ out = DuplicateLine(FirstRepeatFromZero(positions))
        /\ FirstRepeatFromZero(positions) = FirstReturn(positions)

\* C6 amended: the initial configuration is not recorded; a configuration that
\* is first back at its initial state after k steps, k + 1 < Cap, is reported
\* at iteration k + 1, the first step whose system equals the system after an
\* earlier completed step.
C6_ReturnReportedOneLater ==
    (pc = "done" /\ FirstReturn(positions) # 0 /\ FirstReturn(positions) + 1 < Cap) =>
        /\ out = DuplicateLine(FirstReturn(positions) + 1)
        /\ FirstReturn(positions) + 1 = FirstRepeat(positions)
        /\ bodies = StepN(SystemNew(positions), 1)

C6_Witness ==
    /\ pc = "done" /\ FirstReturn(positions) = 4 /\ out = DuplicateLine(5)

\* C7: on each axis the velocities of all bodies sum to what they summed to on
\* entry to the step, and to zero.
C7_VelocitySumZero ==
    \A a \in Axes :
        /\ SumVel(bodies, a, Len(bodies)) = SumVel(prev, a, Len(prev))
        /\ SumVel(bodies, a, Len(bodies)) = 0

C7_Witness ==
    /\ Len(bodies) = 4 /\ count = 9 /\ pc = "check"
    /\ \A i \in 1..4 : bodies[i].velocity.x # 0

\* C8: whatever order the pairs of a step are taken in, and whichever body of
\* a pair is self, the system after the step is the one the order of
\* combinations(2) gives; calc_gravity on (a, b) and on (b, a) agree.
C8_PairOrderIrrelevant ==
    /\ pc = "check" => bodies = SystemStep(prev)
    /\ \A i, j \in 1..Len(bodies) :
           i # j => CalcGravity(bodies, i, j) = CalcGravity(bodies, j, i)

C8_Witness ==
    /\ pc = "check" /\ count = 1 /\ Len(bodies) = 4
    /\ calls # Combinations(4)
    /\ calls[1] = <<4, 2>>

\* C9: every energy of every body and of the system is a non-negative
\* integer: no try_into().unwrap() fails.
C9_EnergiesNonNegative ==
    /\ pc # "panic"
    /\ \A i \in 1..Len(bodies) :
          /\ PotentialEnergy(bodies[i]) # UnwrapFailed /\ PotentialEnergy(bodies[i]) >= 0
          /\ KineticEnergy(bodies[i]) # UnwrapFailed /\ KineticEnergy(bodies[i]) >= 0
          /\ BodyTotalEnergy(bodies[i]) # UnwrapFailed /\ BodyTotalEnergy(bodies[i]) >= 0
    /\ SystemTotalEnergy(bodies) # UnwrapFailed /\ SystemTotalEnergy(bodies) >= 0

C9_Witness ==
    /\ pc = "loop" /\ count > 0 /\ SystemTotalEnergy(bodies) > 0
    /\ \E i \in 1..Len(bodies) :
          /\ bodies[i].position.x < 0 /\ bodies[i].velocity.x < 0
          /\ BodyTotalEnergy(bodies[i]) > 0

\* C10: in each step() calc_gravity is invoked once for each pair of indices
\* i < j, n(n-1)/2 times in all, never with one body as both operands, and
\* no borrow panics.
C10_EachPairOnce ==
    /\ pc # "panic"
    /\ \A k \in 1..Len(calls) : calls[k][1] < calls[k][2]
    /\ \A k, l \in 1..Len(calls) :
           k # l => {calls[k][1], calls[k][2]} # {calls[l][1], calls[l][2]}
    /\ pc \in {"check", "done"} =>
          /\ Len(calls) = (Len(bodies) * (Len(bodies) - 1)) \div 2
          /\ {{calls[k][1], calls[k][2]} : k \in 1..Len(calls)} = UnorderedPairs(Len(bodies))

C10_Witness ==
    /\ pc = "check" /\ Len(bodies) = 4 /\ Len(calls) = 6 /\ count = 3

\* C11: the system keeps the number of bodies System::new gave it, and
\* state() encodes all of it: it has 6 * n values, its i-th group of six is
\* body i's (px, py, pz, vx, vy, vz), and the state() of two systems (the
\* current one against the one on entry to the step, and against the
\* initial one) are equal exactly when all bodies are equal.
C11_StateFaithful ==
    /\ Len(bodies) = Len(positions)
    /\ Len(prev) = Len(positions)
    /\ Len(SystemState(bodies)) = 6 * Len(bodies)
    /\ \A i \in 1..Len(bodies) :
          SubSeq(SystemState(bodies), 6 * (i - 1) + 1, 6 * i)
            = <<bodies[i].position.x, bodies[i].position.y, bodies[i].position.z,
                bodies[i].velocity.x, bodies[i].velocity.y, bodies[i].velocity.z>>
    /\ (SystemState(bodies) = SystemState(prev)) <=> (bodies = prev)
    /\ (SystemState(bodies) = SystemState(SystemNew(positions)))
          <=> (bodies = SystemNew(positions))

C11_Witness ==
    /\ pc = "gravity" /\ Len(bodies) = 4 /\ count = 5 /\ Len(calls) = 3
    /\ bodies # prev
    /\ \A i \in 1..4 : bodies[i].position = prev[i].position
    /\ SystemState(bodies) # SystemState(prev)
    /\ \E i \in 1..4 : bodies[i].velocity # prev[i].velocity

\* C12: the run is a function of its input: it starts from
\* System::new(positions), every iteration adds one to count and replaces the
\* system by the one a step gives from it (so state() and total_energy()
\* after count iterations are those count steps from the input give), and
\* the line printed at the end is determined by positions alone; two runs
\* from the same positions therefore agree after every step and end with the
\* same outcome and value.
C12_Deterministic ==
    /\ [](count = 0 => bodies = SystemNew(positions))
    /\ [][/\ count' = count + 1
          /\ bodies' = RefStep(bodies)
          /\ SystemState(bodies') = SystemState(RefStep(bodies))
          /\ SystemTotalEnergy(bodies') = SystemTotalEnergy(RefStep(bodies))]_vars
    /\ [](pc # "done" => out = <<>>)
    /\ [](pc = "done" =>
            /\ bodies = StepN(SystemNew(positions), count)
            /\ out = Outcome(positions))

C12_Witness ==
    /\ positions = CapReturnPositions /\ pc = "loop" /\ count = 27
    /\ bodies = StepN(SystemNew(positions), 27)
    /\ \A i \in 1..3 : bodies[i].position.x = positions[i].x /\ bodies[i].velocity.x = 0
    /\ SystemTotalEnergy(bodies) > 0

\* C13: the iteration that brings count to Cap ends the run with the energy
\* line and leaves the HashSet as it was: the state after the Cap-th step is
\* neither inserted nor looked up, and the energy line is printed also when
\* that state is in the set already.
C13_CapBeforeMembership ==
    /\ [][count' = Cap =>
            /\ pc' = "done"
            /\ states' = states
            /\ out' = EnergyLine(SystemTotalEnergy(bodies'))]_vars
    /\ []((pc = "done" /\ count = Cap) =>
            /\ Len(out) = 1 /\ out[1].kind = "energy"
            /\ Cardinality(states) = Cap - 1)

C13_Witness ==
    /\ positions = CapReturnPositions /\ pc = "done" /\ count = Cap
    /\ SystemState(bodies) \in states
    /\ bodies = RefStep(SystemNew(positions))
    /\ out = EnergyLine(308)

\* C14: whenever main is about to run an iteration, the HashSet holds count
\* pairwise distinct states, count <= Cap - 1, among them the state of the
\* current system; an iteration that goes on to another one has added
\* exactly the state after its step, which was not in the set; so the set is
\* the set of states after iterations 1..count (at the end of the run: after
\* iterations 1..count - 1, the last iteration adding nothing new).
C14_SeenStates ==
    /\ [](pc = "loop" =>
            /\ Cardinality(states) = count
            /\ count <= Cap - 1
            /\ count > 0 => SystemState(bodies) \in states)
    /\ [][pc' = "loop" =>
            /\ SystemState(bodies') \notin states
            /\ states' = states \cup {SystemState(bodies')}]_vars
    /\ [](pc = "done" =>
            /\ states = StatesUpTo(positions, count - 1)
            /\ Cardinality(states) = count - 1)

C14_Witness ==
    /\ pc = "loop" /\ count = Cap - 1 /\ Cardinality(states) = Cap - 1
    /\ positions = CapReturnPositions
    /\ SystemState(bodies) \in states

\* C15: from the positions hardcoded in main no state after iterations
\* 1..Cap-1 equals a state recorded before it (every recorded state is new),
\* and the run ends at iteration Cap with the energy line, not with the
\* duplicate line.
C15_MainInputReachesCap ==
    positions = MainPositions =>
        /\ pc \in {"loop", "done"}
        /\ pc = "loop" => Cardinality(states) = count /\ out = <<>>
        /\ pc = "done" =>
              /\ count = Cap
              /\ FirstRepeat(positions) = 0
              /\ Cardinality(states) = Cap - 1
              /\ SystemState(bodies) \notin states
              /\ out = EnergyLine(SystemTotalEnergy(bodies))

C15_Witness ==
    /\ positions = MainPositions /\ pc = "done" /\ count = Cap
    /\ out = EnergyLine(8287)
    /\ SystemState(bodies) \notin states

\* C16: the system before a step is recovered from the system after it
\* (StepBack undoes every iteration of main, so step() is one-to-one on the
\* systems a run goes through); and whenever main prints the duplicate line,
\* at iteration c = count, the system after c steps is the system after step
\* 1 and the system after c - 1 steps is the initial one.
C16_StepInjective ==
    /\ [][pc' # "panic" => StepBack(bodies') = bodies]_vars
    /\ []((pc = "done" /\ out = DuplicateLine(count)) =>
            /\ bodies = RefStep(SystemNew(positions))
            /\ StepBack(bodies) = SystemNew(positions)
            /\ StepN(SystemNew(positions), count - 1) = SystemNew(positions)
            /\ \A k \in 1..(count - 2) :
                   StepN(SystemNew(positions), k) # SystemNew(positions))

C16_Witness ==
    /\ pc = "done" /\ out = DuplicateLine(count) /\ count = 13
    /\ bodies = RefStep(SystemNew(positions))
    /\ bodies # SystemNew(positions)
    /\ StepN(SystemNew(positions), 12) = SystemNew(positions)

\* C17: each axis evolves on its own: when step() returns, the position and
\* velocity components on an axis are the one-axis step of the components on
\* that axis on entry, and after any number of steps they are the components
\* that step() gives, after as many steps, to systems whose initial positions
\* agree with this one's on that axis and differ on the other two.
C17_AxesIndependent ==
    pc = "check" =>
        \A a \in Axes :
            /\ AxisOf(bodies, a) = AxisStep(AxisOf(prev, a))
            /\ AxisOf(bodies, a)
                 = AxisOf(Steps(SystemNew(OnlyAxis(positions, a)), count + 1), a)
            /\ AxisOf(bodies, a)
                 = AxisOf(Steps(SystemNew(OtherAxes(positions, a)), count + 1), a)

C17_Witness ==
    /\ pc = "check" /\ count = 6 /\ positions = MainPositions
    /\ bodies # Steps(SystemNew(OtherAxes(positions, "x")), count + 1)
    /\ AxisOf(bodies, "x") = AxisOf(Steps(SystemNew(OtherAxes(positions, "x")), count + 1), "x")
    /\ AxisOf(bodies, "y") # AxisOf(Steps(SystemNew(OtherAxes(positions, "x")), count + 1), "y")

\* C18: with n bodies, an iteration changes each velocity component by at
\* most n - 1; after count iterations each velocity component is at most
\* (n - 1) * count in absolute value and each position component is within
\* (n - 1) * count * (count + 1) / 2 of its initial value; and for the input
\* of main every position, velocity, position difference and energy, through
\* all Cap iterations, is within the range of a 32-bit signed integer.
C18_Bounded ==
    /\ [][\A i \in 1..Len(bodies) : \A a \in Axes :
            Abs(bodies'[i].velocity[a] - bodies[i].velocity[a]) <= Len(bodies) - 1]_vars
    /\ [](\A i \in 1..Len(bodies) : \A a \in Axes :
            /\ Abs(bodies[i].velocity[a]) <= (Len(bodies) - 1) * count
            /\ Abs(bodies[i].position[a] - positions[i][a])
                 <= ((Len(bodies) - 1) * count * (count + 1)) \div 2)
    /\ [](positions = MainPositions =>
            /\ count <= Cap
            /\ ((Len(bodies) - 1) * Cap * (Cap + 1)) \div 2 + 19 <= 2147483647
            /\ \A i \in 1..Len(bodies) : \A a \in Axes :
                  /\ Abs(bodies[i].position[a]) <= 2147483647
                  /\ Abs(bodies[i].velocity[a]) <= 2147483647
                  /\ \A j \in 1..Len(bodies) :
                        Abs(bodies[i].position[a] - bodies[j].position[a]) <= 2147483647
            /\ \A i \in 1..Len(bodies) :
                  /\ PotentialEnergy(bodies[i]) <= 2147483647
                  /\ KineticEnergy(bodies[i]) <= 2147483647
                  /\ BodyTotalEnergy(bodies[i]) <= 2147483647
            /\ SystemTotalEnergy(bodies) <= 2147483647)

C18_Witness ==
    /\ positions = MainPositions /\ pc = "loop" /\ count = 2
    /\ bodies[1].velocity.x = (Len(bodies) - 1) * count
    /\ bodies[1].position.x - positions[1].x
         = ((Len(bodies) - 1) * count * (count + 1)) \div 2
    /\ SystemTotalEnergy(bodies) > 0

====
